---------------------------- MODULE Spec2Model ----------------------------
(***************************************************************************)
(* Model of the OTP lifecycle (send-otp / verify-otp / rate limiter /      *)
(* expiry sweep) and of the Socket.IO room relay of HarshaJrDev/BackEnd.   *)
(*                                                                         *)
(* The repository holds six variants of the same server file:              *)
(*   "index"  src/index.js                                                 *)
(*   "p000a"  src/unnamed/part_000, lines 1-186                            *)
(*   "p000b"  src/unnamed/part_000, lines 187-311                          *)
(*   "p001"   src/unnamed/part_001                                         *)
(*   "p002"   src/unnamed/part_002                                         *)
(*   "p003"   src/unnamed/part_003                                         *)
(* One run of the model is one run of one variant (variable `variant`).    *)
(*                                                                         *)
(* Time is counted in units of 10 minutes: the OTP lifetime                *)
(* (10 * 60 * 1000 ms) is 1 unit, the limiter window (60 * 60 * 1000 ms)   *)
(* is 6 units.  The sweep interval (60000 ms) is shorter than one unit, so *)
(* the sweep may run at any moment.                                        *)
(***************************************************************************)
EXTENDS Integers, Sequences, FiniteSets, TLC

VARIABLES
    variant,    \* which server file is running
    now,        \* Date.now(), in units of 10 minutes
    otpStore,   \* the Map otpStore: email -> [otp, expiresAt]
    hits,       \* the limiter's store: sourceKey -> [windowStart, count]
    inflight,   \* send-otp handlers suspended at `await sendOTP(email, otp)`
    sockets,    \* connection -> "new" | "connected" | "closed"
    rooms,      \* Socket.IO adapter: roomId -> set of joined connections
    inbox,      \* connection -> the receive_message events delivered to it
    sent,       \* number of send_message events handled so far
    firestore,  \* the Firestore collections: name -> (document id -> data)
    approving,  \* the approve-role handler suspended at a Firestore call
    last        \* the step taken most recently: the request or event, and
                \* the response when the step sent one

vars ==
    <<variant, now, otpStore, hits, inflight, sockets, rooms, inbox, sent,
      firestore, approving, last>>

otpVars   == <<otpStore, hits, inflight>>
relayVars == <<sockets, rooms, inbox, sent>>
roleVars  == <<firestore, approving>>

---------------------------------------------------------------------------
(* Bounds of the model *)

MaxTime == 2            \* the clock of the OTP runs stops here
MaxLimiterTime == 7     \* the clock of the limiter runs stops here
MaxSends == 2           \* send_message events per relay run

(* Program constants, in units of 10 minutes where they are durations *)

OtpTtl == 1             \* 10 * 60 * 1000 ms

\* Fault: a window of 80 minutes.
windowMs_Long == 6 + 2

windowMs == 6           \* 60 * 60 * 1000 ms

\* Fault: one request more per window.
max_Loose == 3 + 1

max == 3                \* requests per window

---------------------------------------------------------------------------
(* JavaScript values of a JSON request body *)

Undefined == [t |-> "undefined"]
Str(s)    == [t |-> "string", s |-> s]
Num(n)    == [t |-> "number", n |-> n]

\* !v
Falsy(v) ==
    \/ v.t = "undefined"
    \/ v.t = "string" /\ v.s = <<>>
    \/ v.t = "number" /\ v.n = 0

RECURSIVE Digits(_)
\* the decimal digits of a non-negative integer, most significant first
Digits(n) == IF n < 10 THEN <<n>> ELSE Append(Digits(n \div 10), n % 10)

\* String(v): the characters of the string form of v
String(v) ==
    CASE v.t = "string"    -> v.s
      [] v.t = "number"    -> Digits(v.n)
      [] v.t = "undefined" -> <<"u","n","d","e","f","i","n","e","d">>

\* a !== b for a string a (record.otp) and any value b
StrictNotEqual(a, b) == ~(b.t = "string" /\ b.s = a)

\* Fault: /^[^\s@]+@[^\s@]+$/, which asks for no dot after the "@".
RegexTest_NoDot(s) ==
    \E i \in 2..(Len(s) - 1) :
        /\ s[i] = "@"
        /\ \A k \in 1..Len(s) : k # i => s[k] \notin {"@", " "}

\* /^[^\s@]+@[^\s@]+\.[^\s@]+$/.test(email)
RegexTest(s) ==
    \E i \in 2..Len(s) :
        /\ s[i] = "@"
        /\ \A k \in 1..Len(s) : k # i => s[k] \notin {"@", " "}
        /\ \E j \in (i + 2)..(Len(s) - 1) : s[j] = "."

isValidEmail(email) == RegexTest(String(email))

---------------------------------------------------------------------------
(* The variants *)

Variants == {"index", "p000a", "p000b", "p001", "p002", "p003"}

\* sendOTP is require("./mailer"): the handler is suspended until the SMTP
\* transport answers, and the answer may be an error.  In p001 and p002
\* sendOTP is a local stub that returns Promise.resolve(): the await resumes
\* in the same turn of the event loop and never throws.
UsesMailer(v) == v \in {"index", "p000a", "p000b", "p003"}

\* setInterval(..., 60000) over otpStore
HasSweep(v) == v = "p002"

\* the shape of the verify-otp handler
VerifyStyle(v) ==
    CASE v \in {"index", "p000a", "p003"} -> "combined"
      [] v \in {"p000b", "p001"}          -> "separate"
      [] v = "p002"                       -> "strict"

\* receive_message carries timestamp: new Date().toISOString()
HasTimestamp(v) == v \in {"index", "p001", "p002"}

---------------------------------------------------------------------------
(* Inputs *)

Email1 == Str(<<"a", "@", "b", ".", "c">>)
Email2 == Str(<<"d", "@", "b", ".", "c">>)
ValidEmails == {Email1, Email2}
BadEmails == {Undefined, Str(<<>>), Str(<<"a", "@", "b">>)}
Emails == ValidEmails \cup BadEmails

\* Math.random() is k / RandomDen for k in 0 .. RandomDen - 1
RandomDen == 1000
RandomDraws == {0, RandomDen - 1}

\* Fault: Math.floor(Math.random() * 1000000), which yields short codes.
GenerateOtp_FromZero(k) == (k * 1000000) \div RandomDen

\* Math.floor(100000 + Math.random() * 900000)
GenerateOtp(k) == 100000 + ((k * 900000) \div RandomDen)

Codes == {GenerateOtp(k) : k \in RandomDraws}

\* what a client may put in the otp field of a verify-otp body
Candidates == {Undefined} \cup {Num(c) : c \in Codes} \cup {Str(Digits(c)) : c \in Codes}

\* the email field of the verify-otp bodies
VerifyEmails == ValidEmails \cup {Str(<<>>)}

Sources == {"ip1", "ip2"}

\* Socket.IO connections, and the room names the clients use
Conns == {"A", "B", "C"}
RoomIds == {"R", "Q"}
Messages == {"hi"}
SenderIds == {"u1"}

\* handler instances of send-otp that may be suspended at the same time
Slots == {"h1", "h2"}
Idle == [email |-> Undefined]

\* `last` before any step
Nothing == [op |-> "none"]

---------------------------------------------------------------------------
(* The OTP store (a Map) *)

Has(store, key) == key \in DOMAIN store

\* otpStore.set(key, value)
MapSet(store, key, value) == (key :> value) @@ store

\* otpStore.delete(key)
MapDelete(store, key) == [k \in (DOMAIN store) \ {key} |-> store[k]]

EmptyMap == [k \in {} |-> Undefined]

---------------------------------------------------------------------------
(* The rate limiter: rateLimit({ windowMs, max }) in front of /send-otp.   *)
(* express-rate-limit itself is not part of the repository; its admission  *)
(* rule is the fixed window of the specification, section 4.2.             *)

\* the window of sourceKey at this moment: a new one when there is none or
\* the current one has elapsed
Window(src) ==
    IF Has(hits, src) /\ now - hits[src].windowStart < windowMs
    THEN hits[src]
    ELSE [windowStart |-> now, count |-> 0]

\* Fault: one exhausted window closes the endpoint to every source.
admit_AnySource(src) == \A s \in Sources : Window(s).count < max

admit(src) == Window(src).count < max

\* the limiter's store after the request of src has been counted
Counted(src) ==
    IF admit(src)
    THEN MapSet(hits, src, [Window(src) EXCEPT !.count = @ + 1])
    ELSE hits

---------------------------------------------------------------------------
(* POST /send-otp *)

\* What `last` keeps of a step of send-otp.  status and success are the
\* response.  src and email are the request; had tells whether otpStore
\* held a record of email before the step, and prior is the limiter's entry
\* of src before the request was counted (Nothing when there was none, or
\* when the step resumes a suspended handler).  notified lists the calls of
\* sendOTP the step made.
SendOtpResponse(status, src, email, had, prior, notified) ==
    [op |-> "send-otp", status |-> status, success |-> (status = 200),
     src |-> src, email |-> email, had |-> had, prior |-> prior,
     notified |-> notified]

\* Fault: the handler calls sendOTP again after the first call.
Notified_Twice(email, otp) ==
    <<[email |-> email, otp |-> otp], [email |-> email, otp |-> otp]>>

\* the calls made by `await sendOTP(email, otp)`: one, with the email and
\* the code of the request
Notified(email, otp) == <<[email |-> email, otp |-> otp]>>

\* otpStore.set(email, { otp: String(otp), expiresAt })
Stored(otp, expiresAt) == [otp |-> String(Num(otp)), expiresAt |-> expiresAt]

\* Fault: the limiter counts the request but its answer is not awaited: the
\* handler runs whether or not the request was admitted.
SendOtp_Unlimited(h, src, email, k) ==
    LET otp       == GenerateOtp(k)
        expiresAt == now + OtpTtl
        had       == Has(otpStore, email)
        prior     == IF Has(hits, src) THEN hits[src] ELSE Nothing
    IN  /\ hits' = Counted(src)
        /\ IF FALSE
           THEN /\ last' = SendOtpResponse(429, src, email, had, prior, <<>>)
                /\ UNCHANGED <<otpStore, inflight>>
           ELSE IF Falsy(email) \/ ~isValidEmail(email)
           THEN /\ last' = SendOtpResponse(400, src, email, had, prior, <<>>)
                /\ UNCHANGED <<otpStore, inflight>>
           ELSE IF UsesMailer(variant)
           THEN /\ inflight[h] = Idle
                /\ inflight' = [inflight EXCEPT ![h] =
                                   [src |-> src, email |-> email, otp |-> otp,
                                    expiresAt |-> expiresAt]]
                /\ last' = [op |-> "await sendOTP", src |-> src, email |-> email,
                            prior |-> prior, notified |-> Notified(email, otp)]
                /\ UNCHANGED otpStore
           ELSE \* the stub sendOTP resolves at once: store and answer, in
                \* either order of the two statements
                /\ otpStore' = MapSet(otpStore, email, Stored(otp, expiresAt))
                /\ last' = SendOtpResponse(200, src, email, had, prior,
                                            Notified(email, otp))
                /\ UNCHANGED inflight
        /\ UNCHANGED <<variant, roleVars, now, relayVars>>

\* Fault: the count of a source is not written while a request of that
\* source is suspended at its sendOTP call.
SendOtp_CountsWhenIdle(h, src, email, k) ==
    LET otp       == GenerateOtp(k)
        expiresAt == now + OtpTtl
        had       == Has(otpStore, email)
        prior     == IF Has(hits, src) THEN hits[src] ELSE Nothing
    IN  /\ hits' = IF \E x \in Slots : inflight[x] # Idle /\ inflight[x].src = src
                   THEN hits
                   ELSE Counted(src)
        /\ IF ~admit(src)
           THEN /\ last' = SendOtpResponse(429, src, email, had, prior, <<>>)
                /\ UNCHANGED <<otpStore, inflight>>
           ELSE IF Falsy(email) \/ ~isValidEmail(email)
           THEN /\ last' = SendOtpResponse(400, src, email, had, prior, <<>>)
                /\ UNCHANGED <<otpStore, inflight>>
           ELSE IF UsesMailer(variant)
           THEN /\ inflight[h] = Idle
                /\ inflight' = [inflight EXCEPT ![h] =
                                   [src |-> src, email |-> email, otp |-> otp,
                                    expiresAt |-> expiresAt]]
                /\ last' = [op |-> "await sendOTP", src |-> src, email |-> email,
                            prior |-> prior, notified |-> Notified(email, otp)]
                /\ UNCHANGED otpStore
           ELSE \* the stub sendOTP resolves at once: store and answer, in
                \* either order of the two statements
                /\ otpStore' = MapSet(otpStore, email, Stored(otp, expiresAt))
                /\ last' = SendOtpResponse(200, src, email, had, prior,
                                            Notified(email, otp))
                /\ UNCHANGED inflight
        /\ UNCHANGED <<variant, roleVars, now, relayVars>>

\* Fault: the mailer variants store the record before awaiting sendOTP.
SendOtp_StoresFirst(h, src, email, k) ==
    LET otp       == GenerateOtp(k)
        expiresAt == now + OtpTtl
        had       == Has(otpStore, email)
        prior     == IF Has(hits, src) THEN hits[src] ELSE Nothing
    IN  /\ hits' = Counted(src)
        /\ IF ~admit(src)
           THEN /\ last' = SendOtpResponse(429, src, email, had, prior, <<>>)
                /\ UNCHANGED <<otpStore, inflight>>
           ELSE IF Falsy(email) \/ ~isValidEmail(email)
           THEN /\ last' = SendOtpResponse(400, src, email, had, prior, <<>>)
                /\ UNCHANGED <<otpStore, inflight>>
           ELSE IF UsesMailer(variant)
           THEN /\ inflight[h] = Idle
                /\ inflight' = [inflight EXCEPT ![h] =
                                   [src |-> src, email |-> email, otp |-> otp,
                                    expiresAt |-> expiresAt]]
                /\ last' = [op |-> "await sendOTP", src |-> src, email |-> email,
                            prior |-> prior, notified |-> Notified(email, otp)]
                /\ otpStore' = MapSet(otpStore, email, Stored(otp, expiresAt))
           ELSE \* the stub sendOTP resolves at once: store and answer, in
                \* either order of the two statements
                /\ otpStore' = MapSet(otpStore, email, Stored(otp, expiresAt))
                /\ last' = SendOtpResponse(200, src, email, had, prior,
                                            Notified(email, otp))
                /\ UNCHANGED inflight
        /\ UNCHANGED <<variant, roleVars, now, relayVars>>

\* The request of `src` for `email` arrives; k is the draw of Math.random()
\* and h the handler instance that serves it.  The limiter runs first
\* (app.use("/send-otp", otpLimiter)), then the handler up to
\* `await sendOTP(email, otp)`.
SendOtp(h, src, email, k) ==
    LET otp       == GenerateOtp(k)
        expiresAt == now + OtpTtl
        had       == Has(otpStore, email)
        prior     == IF Has(hits, src) THEN hits[src] ELSE Nothing
    IN  /\ hits' = Counted(src)
        /\ IF ~admit(src)
           THEN /\ last' = SendOtpResponse(429, src, email, had, prior, <<>>)
                /\ UNCHANGED <<otpStore, inflight>>
           ELSE IF Falsy(email) \/ ~isValidEmail(email)
           THEN /\ last' = SendOtpResponse(400, src, email, had, prior, <<>>)
                /\ UNCHANGED <<otpStore, inflight>>
           ELSE IF UsesMailer(variant)
           THEN /\ inflight[h] = Idle
                /\ inflight' = [inflight EXCEPT ![h] =
                                   [src |-> src, email |-> email, otp |-> otp,
                                    expiresAt |-> expiresAt]]
                /\ last' = [op |-> "await sendOTP", src |-> src, email |-> email,
                            prior |-> prior, notified |-> Notified(email, otp)]
                /\ UNCHANGED otpStore
           ELSE \* the stub sendOTP resolves at once: store and answer, in
                \* either order of the two statements
                /\ otpStore' = MapSet(otpStore, email, Stored(otp, expiresAt))
                /\ last' = SendOtpResponse(200, src, email, had, prior,
                                            Notified(email, otp))
                /\ UNCHANGED inflight
        /\ UNCHANGED <<variant, roleVars, now, relayVars>>

\* Fault: the resumed handler updates the code of an existing record in
\* place and leaves its expiresAt.
SendMailResolved_UpdatesCodeOnly(h) ==
    /\ inflight[h] # Idle
    /\ otpStore' = MapSet(otpStore, inflight[h].email,
                          Stored(inflight[h].otp,
                                 IF Has(otpStore, inflight[h].email)
                                 THEN otpStore[inflight[h].email].expiresAt
                                 ELSE inflight[h].expiresAt))
    /\ last' = SendOtpResponse(200, inflight[h].src, inflight[h].email,
                                Has(otpStore, inflight[h].email), Nothing, <<>>)
    /\ inflight' = [inflight EXCEPT ![h] = Idle]
    /\ UNCHANGED <<variant, roleVars, now, hits, relayVars>>

\* Fault: the resumed handler computes expiresAt when it stores, after the
\* await.
SendMailResolved_FreshExpiry(h) ==
    /\ inflight[h] # Idle
    /\ otpStore' = MapSet(otpStore, inflight[h].email,
                          Stored(inflight[h].otp, now + OtpTtl))
    /\ last' = SendOtpResponse(200, inflight[h].src, inflight[h].email,
                                Has(otpStore, inflight[h].email), Nothing, <<>>)
    /\ inflight' = [inflight EXCEPT ![h] = Idle]
    /\ UNCHANGED <<variant, roleVars, now, hits, relayVars>>

\* Fault: the resumed handler stores only when the email has no record yet.
SendMailResolved_KeepsOld(h) ==
    /\ inflight[h] # Idle
    /\ otpStore' = IF Has(otpStore, inflight[h].email)
                   THEN otpStore
                   ELSE MapSet(otpStore, inflight[h].email,
                               Stored(inflight[h].otp, inflight[h].expiresAt))
    /\ last' = SendOtpResponse(200, inflight[h].src, inflight[h].email,
                                Has(otpStore, inflight[h].email), Nothing, <<>>)
    /\ inflight' = [inflight EXCEPT ![h] = Idle]
    /\ UNCHANGED <<variant, roleVars, now, hits, relayVars>>

\* transporter.sendMail succeeded: the handler resumes after the await
SendMailResolved(h) ==
    /\ inflight[h] # Idle
    /\ otpStore' = MapSet(otpStore, inflight[h].email,
                          Stored(inflight[h].otp, inflight[h].expiresAt))
    /\ last' = SendOtpResponse(200, inflight[h].src, inflight[h].email,
                                Has(otpStore, inflight[h].email), Nothing, <<>>)
    /\ inflight' = [inflight EXCEPT ![h] = Idle]
    /\ UNCHANGED <<variant, roleVars, now, hits, relayVars>>

\* transporter.sendMail threw: the catch block answers 500
SendMailRejected(h) ==
    /\ inflight[h] # Idle
    /\ last' = SendOtpResponse(500, inflight[h].src, inflight[h].email,
                                Has(otpStore, inflight[h].email), Nothing, <<>>)
    /\ inflight' = [inflight EXCEPT ![h] = Idle]
    /\ UNCHANGED <<variant, roleVars, now, otpStore, hits, relayVars>>

---------------------------------------------------------------------------
(* POST /verify-otp *)

\* the message of the response on each branch of the handler
VerifyMessage(v, branch) ==
    IF v \in {"index", "p000a", "p003"} THEN
        (IF branch = "verified" THEN "OTP verified successfully."
         ELSE "Invalid or expired OTP.")
    ELSE IF v = "p000b" THEN
        (CASE branch = "required" -> "Email and OTP are required."
           [] branch = "absent"   -> "No OTP found for this email."
           [] branch = "expired"  -> "OTP has expired."
           [] branch = "mismatch" -> "Invalid OTP."
           [] branch = "verified" -> "OTP verified successfully.")
    ELSE IF v = "p001" THEN
        (CASE branch = "required" -> "Email and OTP required."
           [] branch = "absent"   -> "No OTP found."
           [] branch = "expired"  -> "OTP expired."
           [] branch = "mismatch" -> "Invalid OTP."
           [] branch = "verified" -> "OTP verified.")
    ELSE \* p002: the failures are handed to next({ status: 400, message })
        (CASE branch \in {"absent", "expired"} -> "OTP expired or not found"
           [] branch = "mismatch" -> "Invalid OTP"
           [] branch = "verified" -> "OTP verified")

\* Fault: a missing record falls through to the success answer.
VerifyResponse_AbsentPasses(branch, email, otp) ==
    [op |-> "verify-otp",
     status |-> IF branch \in {"verified", "absent"} THEN 200 ELSE 400,
     success |-> (branch \in {"verified", "absent"}),
     message |-> VerifyMessage(variant, "verified"),
     email |-> email, otp |-> otp]

VerifyResponse(branch, email, otp) ==
    [op |-> "verify-otp",
     status |-> IF branch = "verified" THEN 200 ELSE 400,
     success |-> (branch = "verified"),
     message |-> VerifyMessage(variant, branch),
     email |-> email, otp |-> otp]

\* the branch the handler takes, in the order the code tests
VerifyBranch(v, store, t, email, otp) ==
    LET record  == store[email]
        absent  == ~Has(store, email)
        expired == t > record.expiresAt
    IN  CASE VerifyStyle(v) = "combined" ->
               IF absent THEN "absent"
               ELSE IF expired THEN "expired"
               ELSE IF String(Str(record.otp)) # String(otp) THEN "mismatch"
               ELSE "verified"
          [] VerifyStyle(v) = "separate" ->
               IF Falsy(email) \/ ~isValidEmail(email) \/ Falsy(otp) THEN "required"
               ELSE IF absent THEN "absent"
               ELSE IF expired THEN "expired"
               ELSE IF String(Str(record.otp)) # String(otp) THEN "mismatch"
               ELSE "verified"
          [] VerifyStyle(v) = "strict" ->
               IF absent THEN "absent"
               ELSE IF expired THEN "expired"
               ELSE IF StrictNotEqual(record.otp, otp) THEN "mismatch"
               ELSE "verified"

\* Fault: the record is kept after a successful verification.
VerifyDeletes_KeepsVerified(v, branch) ==
    branch = "expired" /\ VerifyStyle(v) = "separate"

\* Fault: a failed comparison deletes the record too.
VerifyDeletes_DropsOnMismatch(v, branch) ==
    \/ branch \in {"verified", "mismatch"}
    \/ branch = "expired" /\ VerifyStyle(v) = "separate"

\* whether the handler calls otpStore.delete(email) on that branch
VerifyDeletes(v, branch) ==
    \/ branch = "verified"
    \/ branch = "expired" /\ VerifyStyle(v) = "separate"

\* Fault: verify-otp is held back while a send-otp handler for the email is
\* suspended at its sendOTP call.
VerifyOtp_WaitsForSend(email, otp) ==
    LET branch == VerifyBranch(variant, otpStore, now, email, otp)
    IN  /\ \A h \in Slots : inflight[h] = Idle \/ inflight[h].email # email
        /\ otpStore' = IF VerifyDeletes(variant, branch)
                       THEN MapDelete(otpStore, email)
                       ELSE otpStore
        /\ last' = VerifyResponse(branch, email, otp)
        /\ UNCHANGED <<variant, roleVars, now, hits, inflight, relayVars>>

\* Fault: a successful verification empties the store (otpStore.clear())
\* instead of deleting the record of its email.
VerifyOtp_ClearsStore(email, otp) ==
    LET branch == VerifyBranch(variant, otpStore, now, email, otp)
    IN  /\ otpStore' = IF VerifyDeletes(variant, branch)
                       THEN EmptyMap
                       ELSE otpStore
        /\ last' = VerifyResponse(branch, email, otp)
        /\ UNCHANGED <<variant, roleVars, now, hits, inflight, relayVars>>

VerifyOtp(email, otp) ==
    LET branch == VerifyBranch(variant, otpStore, now, email, otp)
    IN  /\ otpStore' = IF VerifyDeletes(variant, branch)
                       THEN MapDelete(otpStore, email)
                       ELSE otpStore
        /\ last' = VerifyResponse(branch, email, otp)
        /\ UNCHANGED <<variant, roleVars, now, hits, inflight, relayVars>>

---------------------------------------------------------------------------
(* The expiry sweep: setInterval(() => otpStore.forEach(...), 60000) *)

\* Fault: the sweep deletes a record from the instant of its expiry on.
Swept_AtBoundary(store, t) ==
    [k \in {e \in DOMAIN store : ~(t >= store[e].expiresAt)} |-> store[k]]

\* Fault: the sweep keeps a record for one more unit after its expiry.
Swept_Late(store, t) ==
    [k \in {e \in DOMAIN store : ~(t > store[e].expiresAt + 1)} |-> store[k]]

Swept(store, t) ==
    [k \in {e \in DOMAIN store : ~(t > store[e].expiresAt)} |-> store[k]]

\* Fault: a sweep that also forgets the limiter's windows.
Sweep_ResetsWindows ==
    /\ HasSweep(variant)
    /\ otpStore' = Swept(otpStore, now)
    /\ hits' = EmptyMap
    /\ last' = [op |-> "sweep",
                removed |-> Cardinality(DOMAIN otpStore \ DOMAIN Swept(otpStore, now))]
    /\ UNCHANGED <<variant, roleVars, now, inflight, relayVars>>

Sweep ==
    /\ HasSweep(variant)
    /\ otpStore' = Swept(otpStore, now)
    /\ last' = [op |-> "sweep",
                removed |-> Cardinality(DOMAIN otpStore \ DOMAIN Swept(otpStore, now))]
    /\ UNCHANGED <<variant, roleVars, now, hits, inflight, relayVars>>

---------------------------------------------------------------------------
(* The Socket.IO relay: io.on("connection", (socket) => ...) *)

\* new Date().toISOString(): year, month, day, hour, minute, second and
\* millisecond of t (t in units of 10 minutes, within January 1970)
ToISOString(t) == <<1970, 1, 1 + (t \div 144), (t \div 6) % 24, (t % 6) * 10, 0, 0>>

\* the object emitted as receive_message
Payload(v, message, senderId, t) ==
    IF HasTimestamp(v)
    THEN [message |-> message, senderId |-> senderId, timestamp |-> ToISOString(t)]
    ELSE [message |-> message, senderId |-> senderId]

\* Fault: socket.broadcast, which reaches every connected socket but the
\* sender, in the room or not.
To_Broadcast(c, roomId) == {x \in Conns : sockets[x] = "connected"} \ {c}

\* Fault: a relay that serves the members of the room only.
To_MembersOnly(c, roomId) == IF c \in rooms[roomId] THEN rooms[roomId] \ {c} ELSE {}

\* Fault: io.to(roomId), which reaches the sender too.
To_WithSender(c, roomId) == rooms[roomId]

\* socket.to(roomId): every socket of the room but the sender
To(c, roomId) == rooms[roomId] \ {c}

Connection(c) ==
    /\ sockets[c] = "new"
    /\ sockets' = [sockets EXCEPT ![c] = "connected"]
    /\ last' = [op |-> "connection", socket |-> c]
    /\ UNCHANGED <<variant, roleVars, now, otpVars, rooms, inbox, sent>>

\* What `last` keeps of a join_room step: again tells whether the socket was
\* in the room already, and late tells whether the socket enters a room
\* right after a send_message to that room that had nobody to deliver to.
JoinRoomStep(c, roomId) ==
    [op |-> "join_room", socket |-> c, roomId |-> roomId,
     again |-> (c \in rooms[roomId]),
     late  |-> /\ last.op = "send_message"
               /\ last.roomId = roomId
               /\ rooms[roomId] \ {last.socket} = {}
               /\ c \notin rooms[roomId]]

\* Fault: join_room by a member of the room takes it out of the room.
JoinRoom_Toggles(c, roomId) ==
    /\ sockets[c] = "connected"
    /\ rooms' = [rooms EXCEPT ![roomId] =
                    IF c \in @ THEN @ \ {c} ELSE @ \cup {c}]
    /\ last' = JoinRoomStep(c, roomId)
    /\ UNCHANGED <<variant, roleVars, now, otpVars, sockets, inbox, sent>>

\* socket.on("join_room", (roomId) => socket.join(roomId))
JoinRoom(c, roomId) ==
    /\ sockets[c] = "connected"
    /\ rooms' = [rooms EXCEPT ![roomId] = @ \cup {c}]
    /\ last' = JoinRoomStep(c, roomId)
    /\ UNCHANGED <<variant, roleVars, now, otpVars, sockets, inbox, sent>>

\* socket.on("send_message", ({ roomId, message, senderId }) => ...)
\* Each delivery is tagged with the number of the send_message event that
\* produced it, to tell the copies of one event from those of another.  Of
\* the step `last` keeps also rejoined: whether the send follows at once a
\* join_room of this room by another socket that was in it already; and
\* afterLeave: whether it follows at once the disconnect of a member of this
\* room.
SendMessage(c, roomId, message, senderId) ==
    /\ sockets[c] = "connected"
    /\ sent < MaxSends
    /\ sent' = sent + 1
    /\ inbox' = [x \in Conns |->
                    IF x \in To(c, roomId)
                    THEN Append(inbox[x],
                                [n |-> sent + 1,
                                 payload |-> Payload(variant, message, senderId, now)])
                    ELSE inbox[x]]
    /\ last' = [op |-> "send_message", socket |-> c, roomId |-> roomId,
                message |-> message, senderId |-> senderId, n |-> sent + 1,
                rejoined |-> /\ last.op = "join_room" /\ last.again
                             /\ last.roomId = roomId /\ last.socket # c,
                afterLeave |-> last.op = "disconnect" /\ roomId \in last.left]
    /\ UNCHANGED <<variant, roleVars, now, otpVars, sockets, rooms>>

\* Fault: the closed socket is taken out of room "R" only.
Disconnect_LeavesOneRoom(c) ==
    /\ sockets[c] = "connected"
    /\ sockets' = [sockets EXCEPT ![c] = "closed"]
    /\ rooms' = [rooms EXCEPT !["R"] = @ \ {c}]
    /\ last' = [op |-> "disconnect", socket |-> c,
                left |-> {r \in RoomIds : c \in rooms[r]}]
    /\ UNCHANGED <<variant, roleVars, now, otpVars, inbox, sent>>

\* Fault: the closed socket stays in its rooms.
Disconnect_KeepsRooms(c) ==
    /\ sockets[c] = "connected"
    /\ sockets' = [sockets EXCEPT ![c] = "closed"]
    /\ last' = [op |-> "disconnect", socket |-> c,
                left |-> {r \in RoomIds : c \in rooms[r]}]
    /\ UNCHANGED <<variant, roleVars, now, otpVars, rooms, inbox, sent>>

\* The client goes away.  Socket.IO takes the socket out of every room, then
\* runs socket.on("disconnect", ...), which only logs.  Of the step `last`
\* keeps left: the rooms the socket was in.
Disconnect(c) ==
    /\ sockets[c] = "connected"
    /\ sockets' = [sockets EXCEPT ![c] = "closed"]
    /\ rooms' = [r \in RoomIds |-> rooms[r] \ {c}]
    /\ last' = [op |-> "disconnect", socket |-> c,
                left |-> {r \in RoomIds : c \in rooms[r]}]
    /\ UNCHANGED <<variant, roleVars, now, otpVars, inbox, sent>>

---------------------------------------------------------------------------
(* Role requests: POST /request-role and POST /approve-role, on Firestore. *)
(* Both routes run behind `authenticate`, which sets req.user.uid from the *)
(* ID token; the requests modelled here carry a token that verifies.       *)

Uids == {"u1", "u2"}
Roles == {"driver", "admin", "rider"}

\* the server files that have the two routes
HasRoles(v) == v \in {"index", "p000a", "p003"}

\* ["driver", "admin"].includes(role)
IsRole(role) == role \in {"driver", "admin"}

EmptyFirestore ==
    [admins |-> EmptyMap, drivers |-> EmptyMap, users |-> EmptyMap,
     roleRequests |-> EmptyMap]

\* the collection named role + "s"
RoleCollection(fs, role) == IF role = "driver" THEN fs.drivers ELSE fs.admins

\* collection(role + "s").doc(id).set(data) and, with merge, set(data,
\* { merge: true }), which keeps the fields of the document that data does
\* not name
SetRoleDoc(fs, role, id, data, merge) ==
    LET coll == RoleCollection(fs, role)
        doc  == IF merge /\ Has(coll, id) THEN data @@ coll[id] ELSE data
    IN  IF role = "driver"
        THEN [fs EXCEPT !.drivers = MapSet(coll, id, doc)]
        ELSE [fs EXCEPT !.admins = MapSet(coll, id, doc)]

\* the document that approve-role writes into the role collection
RoleDoc(v, userData, role, uid, t) ==
    IF v = "index"
    THEN [role |-> role, approvedAt |-> t] @@ userData
    ELSE [role |-> role] @@ userData

\* the fields that approve-role updates in the role request
StatusUpdate(v, approve, uid, t) ==
    IF v = "index"
    THEN IF approve
         THEN [status |-> "approved", approvedBy |-> uid, approvedAt |-> t]
         ELSE [status |-> "rejected", rejectedBy |-> uid, rejectedAt |-> t]
    ELSE [status |-> IF approve THEN "approved" ELSE "rejected"]

ApproveResponse(status, task) ==
    [op |-> "approve-role", status |-> status, success |-> (status = 200),
     uid |-> task.uid, userId |-> task.userId, role |-> task.role,
     approve |-> task.approve]

ApproveAwait(task) ==
    [op |-> "await approve-role", at |-> task.at,
     uid |-> task.uid, userId |-> task.userId, role |-> task.role,
     approve |-> task.approve]

\* POST /request-role: the whole handler; ok tells whether the set succeeds
RequestRole(uid, role, ok) ==
    /\ HasRoles(variant)
    /\ IF ~IsRole(role)
       THEN /\ last' = [op |-> "request-role", status |-> 400, uid |-> uid, role |-> role]
            /\ UNCHANGED firestore
       ELSE IF ok
       THEN /\ firestore' =
                [firestore EXCEPT !.roleRequests =
                    MapSet(@, uid, [userId |-> uid, requestedRole |-> role,
                                    status |-> "pending", requestedAt |-> now])]
            /\ last' = [op |-> "request-role", status |-> 200, uid |-> uid, role |-> role]
       ELSE /\ last' = [op |-> "request-role", status |-> 500, uid |-> uid, role |-> role]
            /\ UNCHANGED firestore
    /\ UNCHANGED <<variant, now, otpVars, relayVars, approving>>

\* POST /approve-role, up to `await ...collection("admins").doc(uid).get()`
ApproveRole(uid, userId, role, approve) ==
    /\ HasRoles(variant)
    /\ approving = Idle
    /\ approving' = [uid |-> uid, userId |-> userId, role |-> role,
                     approve |-> approve, at |-> "admins.get", userData |-> Nothing]
    /\ last' = ApproveAwait(approving')
    /\ UNCHANGED <<variant, now, otpVars, relayVars, firestore>>

\* the handler ends with a response
ApproveAnswers(status) ==
    /\ approving' = Idle
    /\ last' = ApproveResponse(status, approving)

\* the handler goes on to its next Firestore call
ApproveAwaits(at, userData) ==
    /\ approving' = [approving EXCEPT !.at = at, !.userData = userData]
    /\ last' = ApproveAwait(approving')

\* the admins document has been read: the two checks of the request
AdminsGot ==
    /\ approving # Idle /\ approving.at = "admins.get"
    /\ IF ~Has(firestore.admins, approving.uid)
       THEN ApproveAnswers(403)
       ELSE IF ~IsRole(approving.role)
       THEN ApproveAnswers(400)
       ELSE ApproveAwaits("roleRequests.get", Nothing)
    /\ UNCHANGED <<variant, now, otpVars, relayVars, firestore>>

\* the role request has been read
RoleRequestGot ==
    /\ approving # Idle /\ approving.at = "roleRequests.get"
    /\ IF \/ ~Has(firestore.roleRequests, approving.userId)
          \/ firestore.roleRequests[approving.userId].requestedRole # approving.role
       THEN ApproveAnswers(404)
       ELSE IF approving.approve
       THEN ApproveAwaits("users.get", Nothing)
       ELSE ApproveAwaits("roleRequests.update", Nothing)
    /\ UNCHANGED <<variant, now, otpVars, relayVars, firestore>>

\* the user document has been read
UserGot ==
    /\ approving # Idle /\ approving.at = "users.get"
    /\ IF Has(firestore.users, approving.userId)
       THEN ApproveAwaits("roles.set", firestore.users[approving.userId])
       ELSE ApproveAnswers(404)
    /\ UNCHANGED <<variant, now, otpVars, relayVars, firestore>>

\* the document of the role collection has been written
RoleSet ==
    /\ approving # Idle /\ approving.at = "roles.set"
    /\ firestore' =
          SetRoleDoc(firestore, approving.role, approving.userId,
                     RoleDoc(variant, approving.userData, approving.role,
                             approving.uid, now),
                     variant = "index")
    /\ ApproveAwaits(IF variant = "index" THEN "roleRequests.update" ELSE "users.delete",
                     approving.userData)
    /\ UNCHANGED <<variant, now, otpVars, relayVars>>

\* the user document has been deleted (part_000 and part_003 only)
UserDeleted ==
    /\ approving # Idle /\ approving.at = "users.delete"
    /\ firestore' = [firestore EXCEPT !.users = MapDelete(@, approving.userId)]
    /\ ApproveAwaits("roleRequests.update", approving.userData)
    /\ UNCHANGED <<variant, now, otpVars, relayVars>>

\* roleRequestRef.update(...) has been applied: the handler answers 200
StatusUpdated ==
    /\ approving # Idle /\ approving.at = "roleRequests.update"
    /\ Has(firestore.roleRequests, approving.userId)
    /\ firestore' =
          [firestore EXCEPT !.roleRequests[approving.userId] =
              StatusUpdate(variant, approving.approve, approving.uid, now) @@ @]
    /\ ApproveAnswers(200)
    /\ UNCHANGED <<variant, now, otpVars, relayVars>>

\* the Firestore call the handler waits for rejects: the catch block
\* answers 500; in part_000 the read of admins is outside the try block and
\* the request gets no response (status 0)
ApproveFailed ==
    /\ approving # Idle
    /\ IF variant = "p000a" /\ approving.at = "admins.get"
       THEN ApproveAnswers(0)
       ELSE ApproveAnswers(500)
    /\ UNCHANGED <<variant, now, otpVars, relayVars, firestore>>

---------------------------------------------------------------------------
(* POST /send-notifications, one push per driver token (part_001 and      *)
(* part_002).  The drivers collection and the messaging service are       *)
(* outside the server: the snapshot the handler reads and the outcome of   *)
(* each push are inputs of the step.                                       *)

MaxDrivers == 3         \* documents in the drivers snapshot

\* the server files that push to each token on its own
PushesPerToken(v) == v \in {"p001", "p002"}

BookingIds == {Undefined, Num(7)}
BookingDatas == {Undefined, [t |-> "object"]}

\* doc.data().fcmToken of a drivers document
DriverTokens == {Undefined, Str(<<"a">>), Str(<<"b">>)}

DriverDocs ==
    UNION {[1..n -> {[fcmToken |-> tok] : tok \in DriverTokens}] : n \in 0..MaxDrivers}

\* what the messaging service does with the push of each token, in the
\* order of the tokens
PushOutcomes == [1..MaxDrivers -> {"sent", "failed"}]

RECURSIVE TokensOf(_)
\* snapshot.forEach(doc => { if (data.fcmToken) tokens.push(data.fcmToken) })
TokensOf(docs) ==
    IF docs = <<>>
    THEN <<>>
    ELSE IF Falsy(Head(docs).fcmToken)
    THEN TokensOf(Tail(docs))
    ELSE <<Head(docs).fcmToken>> \o TokensOf(Tail(docs))

\* the promise of one push, settled
Pushed(token, outcome) ==
    IF outcome = "sent"
    THEN [state |-> "fulfilled", value |-> [name |-> token]]
    ELSE [state |-> "rejected", reason |-> [message |-> "failed"]]

\* promise.catch((err) => ({ status: "rejected", reason: err.message }))
Catch(p) ==
    IF p.state = "rejected"
    THEN [state |-> "fulfilled",
          value |-> [status |-> "rejected", reason |-> p.reason.message]]
    ELSE p

\* tokens.map(token => sendFcmMessage(token, ...)) in part_001, and
\* tokens.map(token => sendNotification(token, ...).catch(...)) in part_002
SendPromises(v, tokens, outcomes) ==
    [i \in 1..Len(tokens) |->
        IF v = "p002"
        THEN Catch(Pushed(tokens[i], outcomes[i]))
        ELSE Pushed(tokens[i], outcomes[i])]

\* Promise.allSettled(promises)
AllSettled(promises) ==
    [i \in 1..Len(promises) |->
        IF promises[i].state = "fulfilled"
        THEN [status |-> "fulfilled", value |-> promises[i].value]
        ELSE [status |-> "rejected", reason |-> promises[i].reason]]

\* results.filter((r) => r.status === "fulfilled").length
SuccessCount(results) ==
    Cardinality({i \in 1..Len(results) : results[i].status = "fulfilled"})

\* What `last` keeps of a step of send-notifications: the response, the
\* tokens of the snapshot, the tokens a push was attempted for, in order,
\* what the messaging service did with each of those pushes, and how many
\* of them it failed.
NotificationsResponse(status, tokens, pushed, outcomes, fcmResponse) ==
    [op |-> "send-notifications", status |-> status, tokens |-> tokens,
     pushed |-> pushed, outcomes |-> outcomes,
     failed |-> Cardinality({i \in 1..Len(outcomes) : outcomes[i] = "failed"}),
     fcmResponse |-> fcmResponse]

\* POST /send-notifications: the whole handler.  dbOk tells whether the
\* read of the drivers collection succeeds; when it fails part_001 answers
\* 500 from its catch block and part_002, which has none, sends no response
\* (status 0).
SendNotifications(bookingId, bookingData, docs, dbOk, outcomes) ==
    LET tokens   == TokensOf(docs)
        results  == AllSettled(SendPromises(variant, tokens, outcomes))
        settled  == [i \in 1..Len(tokens) |-> outcomes[i]]
        successCount == SuccessCount(results)
        failureCount == Len(results) - successCount
    IN  /\ PushesPerToken(variant)
        /\ last' =
              IF Falsy(bookingId) \/ Falsy(bookingData)
              THEN NotificationsResponse(400, <<>>, <<>>, <<>>, Nothing)
              ELSE IF ~dbOk
              THEN NotificationsResponse(IF variant = "p001" THEN 500 ELSE 0,
                                         <<>>, <<>>, <<>>, Nothing)
              ELSE IF variant = "p001" /\ Len(tokens) = 0
              THEN NotificationsResponse(400, tokens, <<>>, <<>>, Nothing)
              ELSE NotificationsResponse(200, tokens, tokens, settled,
                       [successCount |-> successCount,
                        failureCount |-> failureCount])
        /\ UNCHANGED <<variant, now, otpVars, relayVars, roleVars>>

---------------------------------------------------------------------------
(* The clock *)

Tick(bound) ==
    /\ now < bound
    /\ now' = now + 1
    /\ last' = [op |-> "tick"]
    /\ UNCHANGED <<variant, roleVars, otpVars, relayVars>>

---------------------------------------------------------------------------
(* The state after the server file has been loaded *)

Init ==
    /\ variant \in Variants
    /\ now = 0
    /\ otpStore = EmptyMap
    /\ hits = EmptyMap
    /\ inflight = [s \in Slots |-> Idle]
    /\ sockets = [c \in Conns |-> "new"]
    /\ rooms = [r \in RoomIds |-> {}]
    /\ inbox = [c \in Conns |-> <<>>]
    /\ sent = 0
    /\ firestore = EmptyFirestore
    /\ approving = Idle
    /\ last = Nothing

(* The OTP runs: all variants, one source, one send-otp in flight *)

OtpNext ==
    \/ \E email \in Emails, k \in RandomDraws : SendOtp("h1", "ip1", email, k)
    \/ SendMailResolved("h1")
    \/ SendMailRejected("h1")
    \/ \E email \in VerifyEmails, otp \in Candidates : VerifyOtp(email, otp)
    \/ Sweep
    \/ Tick(MaxTime)

SpecOtp == Init /\ [][OtpNext]_vars

(* The same runs with the timers firing: the sweep's setInterval, where   *)
(* there is one, keeps firing, and time passes up to the end of the run.   *)

SpecOtpFair ==
    /\ Init /\ [][OtpNext]_vars
    /\ WF_vars(Sweep)
    /\ WF_vars(Tick(MaxTime))

(* The limiter runs: two sources, one valid and one empty email, and a      *)
(* clock that runs past the end of a window.  Every variant configures the *)
(* limiter alike; the runs take one that mounts it with app.use (index) and *)
(* the one that passes it to the route (p002).                             *)

InitLimiter == Init /\ variant \in {"index", "p002"}

LimiterNext ==
    \/ \E src \in Sources, email \in {Email1, Str(<<>>)} : SendOtp("h1", src, email, 0)
    \/ SendMailResolved("h1")
    \/ SendMailRejected("h1")
    \/ Tick(MaxLimiterTime)

SpecLimiter == InitLimiter /\ [][LimiterNext]_vars

(* The relay runs.  The relay reads the clock only for the timestamp of a   *)
(* payload, and the clock stands still in these runs.                      *)

RelayNext ==
    \/ \E c \in Conns : Connection(c)
    \/ \E c \in Conns, r \in RoomIds : JoinRoom(c, r)
    \/ \E c \in Conns, r \in RoomIds, m \in Messages, u \in SenderIds :
           SendMessage(c, r, m, u)
    \/ \E c \in Conns : Disconnect(c)

SpecRelay == Init /\ [][RelayNext]_vars

(* The code runs: one issuance for one email, over every draw k of        *)
(* Math.random() = k / RandomDen.                                          *)

AllDraws == 0..(RandomDen - 1)

CodesNext ==
    \/ \E k \in AllDraws :
          /\ otpStore = EmptyMap
          /\ SendOtp("h1", "ip1", Email1, k)
    \/ SendMailResolved("h1")

SpecCodes == Init /\ [][CodesNext]_vars

(* The overlapping runs: two handler instances serve requests of one      *)
(* source for one email, so that a request can arrive while the sendOTP    *)
(* call of another is pending.                                             *)

OverlapNext ==
    \/ \E h \in Slots, k \in RandomDraws : SendOtp(h, "ip1", Email1, k)
    \/ \E h \in Slots : SendMailResolved(h)
    \/ \E h \in Slots : SendMailRejected(h)
    \/ \E otp \in Candidates : VerifyOtp(Email1, otp)
    \/ Tick(MaxTime)

SpecOverlap == Init /\ [][OverlapNext]_vars

(* The pending runs: the OTP endpoints with two handler instances, the    *)
(* sweep, the clock and one socket of the relay, so that every kind of     *)
(* step can fall between a call of sendOTP and its completion.             *)

PendingNext ==
    \/ \E h \in Slots : SendOtp(h, "ip1", Email1, 0)
    \/ \E h \in Slots : SendMailResolved(h)
    \/ \E h \in Slots : SendMailRejected(h)
    \/ \E email \in ValidEmails : VerifyOtp(email, Str(Digits(GenerateOtp(0))))
    \/ Sweep
    \/ Tick(MaxTime)
    \/ Connection("A")
    \/ JoinRoom("A", "R")
    \/ SendMessage("A", "R", "hi", "u1")
    \/ Disconnect("A")

SpecPending == Init /\ [][PendingNext]_vars

(* The mixed runs: the OTP endpoints for two emails next to one socket of  *)
(* the relay, in one process.                                              *)

MixedNext ==
    \/ \E email \in ValidEmails, k \in RandomDraws : SendOtp("h1", "ip1", email, k)
    \/ SendMailResolved("h1")
    \/ SendMailRejected("h1")
    \/ \E email \in ValidEmails, k \in RandomDraws :
          VerifyOtp(email, Str(Digits(GenerateOtp(k))))
    \/ Tick(MaxTime)
    \/ Connection("A")
    \/ JoinRoom("A", "R")
    \/ SendMessage("A", "R", "hi", "u1")
    \/ Disconnect("A")

SpecMixed == Init /\ [][MixedNext]_vars

(* The role runs: the files with the role routes, a database in which u1  *)
(* is an admin and u2, who asks for roles, has a user document or none.    *)

InitRoles ==
    /\ variant \in {v \in Variants : HasRoles(v)}
    /\ now = 0
    /\ otpStore = EmptyMap
    /\ hits = EmptyMap
    /\ inflight = [s \in Slots |-> Idle]
    /\ sockets = [c \in Conns |-> "new"]
    /\ rooms = [r \in RoomIds |-> {}]
    /\ inbox = [c \in Conns |-> <<>>]
    /\ sent = 0
    /\ \E withUser \in {{}, {"u2"}} :
          firestore = [EmptyFirestore EXCEPT
                          !.admins = [u \in {"u1"} |-> [name |-> u]],
                          !.users  = [u \in withUser |-> [name |-> u]]]
    /\ approving = Idle
    /\ last = Nothing

RolesNext ==
    \/ \E role \in Roles, ok \in BOOLEAN : RequestRole("u2", role, ok)
    \/ \E uid \in Uids, userId \in Uids, role \in Roles, approve \in BOOLEAN :
          ApproveRole(uid, userId, role, approve)
    \/ AdminsGot
    \/ RoleRequestGot
    \/ UserGot
    \/ RoleSet
    \/ UserDeleted
    \/ StatusUpdated
    \/ ApproveFailed

SpecRoles == InitRoles /\ [][RolesNext]_vars

(* The push runs: the two files that push to each driver token *)

InitPush == Init /\ PushesPerToken(variant)

PushNext ==
    \E bookingId \in BookingIds, bookingData \in BookingDatas, docs \in DriverDocs,
       dbOk \in BOOLEAN, outcomes \in PushOutcomes :
        SendNotifications(bookingId, bookingData, docs, dbOk, outcomes)

SpecPush == InitPush /\ [][PushNext]_vars

(* All of the server *)

Next ==
    OtpNext \/ LimiterNext \/ RelayNext \/ CodesNext \/ OverlapNext \/ PendingNext
        \/ MixedNext \/ RolesNext \/ PushNext

Spec == Init /\ [][Next]_vars

---------------------------------------------------------------------------
(* Properties of the OTP lifecycle, checked under SpecOtp *)

CodeStrings == {Digits(c) : c \in Codes}

\* messages a verify-otp response gives when otpStore has no record
AbsentMessages ==
    {"No OTP found for this email.", "No OTP found.",
     "Invalid or expired OTP.", "OTP expired or not found"}

\* messages a verify-otp response gives when the candidate differs
MismatchMessages == {"Invalid OTP.", "Invalid OTP", "Invalid or expired OTP."}

\* messages that tell an expired record from an absent one and from a
\* wrong candidate
ExpiredOnlyMessages == {"OTP has expired.", "OTP expired."}

\* the step is the verify-otp handler run on { email: e, otp: c }
VerifyStep(e, c) ==
    last'.op = "verify-otp" /\ last'.email = e /\ last'.otp = c

\* the record of e is in the store and not past its expiry
Live(e) == Has(otpStore, e) /\ now <= otpStore[e].expiresAt

\* C1: a successful verification deletes the record: right after it the
\* store has no record of that email.
C1_VerifiedIsConsumed ==
    (last.op = "verify-otp" /\ last.success) => ~Has(otpStore, last.email)

\* C1: verifying the stored code before expiry succeeds and deletes the
\* record; verifying with no record in the store fails with the not-found
\* answer and changes nothing; and only a successful send-otp puts a record
\* into the store, so a code that was verified once is not accepted again
\* until a new issuance.
C1_VerifyStep ==
    \A e \in ValidEmails, d \in CodeStrings :
        /\ VerifyStep(e, Str(d)) /\ Live(e) /\ otpStore[e].otp = d
              => last'.success /\ last'.status = 200 /\ ~Has(otpStore', e)
        /\ VerifyStep(e, Str(d)) /\ ~Has(otpStore, e)
              => /\ ~last'.success /\ last'.status = 400
                 /\ last'.message \in AbsentMessages
                 /\ otpStore' = otpStore
        /\ ~Has(otpStore, e) /\ Has(otpStore', e)
              => last'.op = "send-otp" /\ last'.success /\ last'.email = e

C1_SingleUse == []C1_VerifiedIsConsumed /\ [][C1_VerifyStep]_vars

\* C1 witness: a verification with the code as stored has just succeeded and
\* the record is gone.
C1_Witness ==
    /\ last.op = "verify-otp" /\ last.success
    /\ last.email \in ValidEmails
    /\ last.otp.t = "string"
    /\ ~Has(otpStore, last.email)

\* the step in which a send-otp handler answers 200 for e
IssuedStep(e) ==
    last'.op = "send-otp" /\ last'.success /\ last'.email = e

\* C2: the store holds one record per email, of the shape { otp, expiresAt }.
C2_OneRecordPerIdentity ==
    \A e \in DOMAIN otpStore :
        /\ e \in ValidEmails
        /\ DOMAIN otpStore[e] = {"otp", "expiresAt"}
        /\ otpStore[e].otp \in CodeStrings

\* C2: a send-otp that answers 200 for e leaves in the store exactly its own
\* record for e, whatever was there before, and leaves the other emails'
\* records alone; a verification succeeds only with the code of the record
\* now in the store, and any other candidate fails and leaves that record.
C2_IssueStep ==
    \A e \in ValidEmails :
        /\ IssuedStep(e) =>
              /\ Has(otpStore', e)
              /\ DOMAIN otpStore' = DOMAIN otpStore \cup {e}
              /\ \A x \in DOMAIN otpStore \ {e} : otpStore'[x] = otpStore[x]
              /\ IF UsesMailer(variant)
                 THEN \E h \in Slots :
                         /\ inflight[h] # Idle /\ inflight'[h] = Idle
                         /\ inflight[h].email = e
                         /\ otpStore'[e] = [otp |-> Digits(inflight[h].otp),
                                            expiresAt |-> inflight[h].expiresAt]
                 ELSE otpStore'[e].expiresAt = now + 1
        /\ \A c \in Candidates :
              VerifyStep(e, c) =>
                 IF last'.success
                 THEN Live(e) /\ String(c) = otpStore[e].otp
                 ELSE Has(otpStore, e) /\ ~Falsy(c) /\ String(c) # otpStore[e].otp /\ Live(e)
                         => Live(e)' /\ otpStore' = otpStore

C2_NewestOnly == []C2_OneRecordPerIdentity /\ [][C2_IssueStep]_vars

\* C2 witness: a send-otp has just answered 200 for an email that had a
\* pending record, and the store holds one record for it.
C2_Witness ==
    /\ last.op = "send-otp" /\ last.success /\ last.had
    /\ Has(otpStore, last.email)

\* C3: before expiry a candidate that differs from the stored code is
\* answered with the mismatch failure and the store is left as it was; the
\* stored code, tried right after such a failure, is still accepted.
C3_MismatchStep ==
    \A e \in ValidEmails, c \in Candidates :
        /\ VerifyStep(e, c) /\ Live(e) /\ ~Falsy(c) /\ String(c) # otpStore[e].otp
              => /\ ~last'.success /\ last'.status = 400
                 /\ last'.message \in MismatchMessages
                 /\ otpStore' = otpStore
        /\ (/\ last.op = "verify-otp" /\ ~last.success /\ last.email = e
            /\ Live(e) /\ c = Str(otpStore[e].otp)
            /\ VerifyStep(e, c))
              => last'.success /\ ~Has(otpStore', e)

C3_MismatchKeepsRecord == [][C3_MismatchStep]_vars

\* C3 witness: a wrong candidate has just been refused while the record is
\* live, and the record is still there.
C3_Witness ==
    /\ last.op = "verify-otp" /\ ~last.success
    /\ last.email \in ValidEmails
    /\ Live(last.email)
    /\ ~Falsy(last.otp)
    /\ String(last.otp) # otpStore[last.email].otp

\* C4: a verification that finds the record past its expiry never succeeds
\* and answers with a message that tells Expired from NotFound and Mismatch,
\* whatever the candidate.
C4_ExpiredStep ==
    \A e \in ValidEmails, c \in Candidates :
        VerifyStep(e, c) /\ ~Falsy(c) /\ Has(otpStore, e) /\ now > otpStore[e].expiresAt
           => ~last'.success /\ last'.message \in ExpiredOnlyMessages

C4_ExpiredIsDistinct == [][C4_ExpiredStep]_vars

\* C4, the part every variant keeps: a record past its expiry is never
\* accepted.
C4_ExpiredNeverVerifies ==
    [][\A e \in ValidEmails, c \in Candidates :
          VerifyStep(e, c) /\ Has(otpStore, e) /\ now > otpStore[e].expiresAt
             => ~last'.success]_vars

\* C7: a step that suspends a send-otp handler at the call of the Notifier
\* leaves the store as it is, and the step that resumes it answers 200 and
\* stores the record, or answers 500 and leaves the store as it is; every
\* send-otp step that answers 500 leaves the store as it is.
C7_NotifierStep ==
    /\ \A h \in Slots :
          /\ (inflight[h] = Idle /\ inflight'[h] # Idle) => otpStore' = otpStore
          /\ (inflight[h] # Idle /\ inflight'[h] = Idle) =>
                /\ last'.op = "send-otp" /\ last'.email = inflight[h].email
                /\ \/ /\ last'.status = 200 /\ last'.success
                      /\ otpStore' = MapSet(otpStore, inflight[h].email,
                                            [otp |-> Digits(inflight[h].otp),
                                             expiresAt |-> inflight[h].expiresAt])
                   \/ /\ last'.status = 500 /\ ~last'.success
                      /\ otpStore' = otpStore
    /\ (last'.op = "send-otp" /\ last'.status = 500) => otpStore' = otpStore

C7_FailedSendStoresNothing == [][C7_NotifierStep]_vars

\* C7 witness: the Notifier has just failed and the handler answered 500.
C7_Witness == last.op = "send-otp" /\ last.status = 500

\* C10: right after a run of the sweep no record of the store has
\* expiresAt < now.
C10_SweptStoreHasNoExpired ==
    last.op = "sweep" => \A e \in DOMAIN otpStore : ~(otpStore[e].expiresAt < now)

\* C10 witness: the sweep has just removed a record.
C10_Witness == last.op = "sweep" /\ last.removed > 0

---------------------------------------------------------------------------
(* Properties of the rate limiter, checked under SpecLimiter *)

\* the step in which a request of src for /send-otp reaches the limiter
ArrivalStep(src) ==
    /\ \/ last'.op = "await sendOTP"
       \/ last'.op = "send-otp" /\ inflight' = inflight
    /\ last'.src = src

\* the limiter answered that step with 429
RejectedStep == last'.op = "send-otp" /\ last'.status = 429

\* src has a window that has not elapsed
InWindow(src) == Has(hits, src) /\ now - hits[src].windowStart < 6

\* C5: no source is ever counted more than 3 times in its window.
C5_CountAtMostMax == \A src \in DOMAIN hits : hits[src].count <= 3

\* C5: within its current window a source's first three requests are
\* admitted and counted, the window keeping its start, and the 4th and every
\* later one is answered 429 and not counted.
C5_WindowStep ==
    \A src \in Sources :
        /\ (ArrivalStep(src) /\ InWindow(src) /\ hits[src].count >= 3)
              => RejectedStep /\ hits' = hits /\ otpStore' = otpStore
        /\ (ArrivalStep(src) /\ InWindow(src) /\ hits[src].count < 3)
              => /\ ~RejectedStep
                 /\ hits'[src] = [windowStart |-> hits[src].windowStart,
                                  count |-> hits[src].count + 1]
        /\ (ArrivalStep(src) /\ ~Has(hits, src))
              => ~RejectedStep /\ hits'[src] = [windowStart |-> now, count |-> 1]
        /\ ~ArrivalStep(src) /\ Has(hits, src)
              => Has(hits', src) /\ hits'[src] = hits[src]

C5_AtMostThreePerWindow == []C5_CountAtMostMax /\ [][C5_WindowStep]_vars

\* C5 witness: a source with three admitted requests in its window has just
\* been answered 429.
C5_Witness ==
    /\ last.op = "send-otp" /\ last.status = 429
    /\ hits[last.src].count = 3
    /\ now - hits[last.src].windowStart < 6

\* C6: a request that arrives an hour or more after the start of its
\* source's window is admitted and starts a new window at now, whose count
\* is then 1.
C6_RolloverStep ==
    \A src \in Sources :
        (ArrivalStep(src) /\ Has(hits, src) /\ now - hits[src].windowStart >= 6)
           => ~RejectedStep /\ hits'[src] = [windowStart |-> now, count |-> 1]

C6_NewWindowAdmits == [][C6_RolloverStep]_vars

\* C6 witness: a source whose old window was full has just been admitted
\* into a new window.
C6_Witness ==
    /\ last.op \in {"send-otp", "await sendOTP"}
    /\ last.prior # Nothing
    /\ last.prior.count = 3
    /\ now - last.prior.windowStart >= 6
    /\ hits[last.src] = [windowStart |-> now, count |-> 1]

---------------------------------------------------------------------------
(* Properties of the relay, checked under SpecRelay *)

\* the number of copies of send_message event n delivered to c
Copies(c, n) == Cardinality({i \in 1..Len(inbox[c]) : inbox[c][i].n = n})

\* C8: right after a send_message of socket s to room R, every member of R
\* other than s has received one copy of it, and s and the sockets outside R
\* have received none.
C8_FanOut ==
    last.op = "send_message" =>
        \A c \in Conns :
            Copies(c, last.n) =
                IF c \in rooms[last.roomId] /\ c # last.socket THEN 1 ELSE 0

\* C8 witness: a member of a room with two other members has just sent to it.
C8_Witness ==
    /\ last.op = "send_message"
    /\ last.socket \in rooms[last.roomId]
    /\ Cardinality(rooms[last.roomId] \ {last.socket}) >= 2

\* C9: a closed socket is a member of no room.
C9_ClosedHasNoRoom ==
    \A c \in Conns : sockets[c] = "closed" => \A r \in RoomIds : c \notin rooms[r]

\* C9: a disconnect takes the socket out of every room and leaves the other
\* memberships alone; from then on no step delivers anything to it, and a
\* send_message still delivers one copy to each remaining member of the room.
C9_DisconnectStep ==
    /\ \A c \in Conns :
          (sockets[c] = "connected" /\ sockets'[c] = "closed")
             => \A r \in RoomIds : rooms'[r] = rooms[r] \ {c}
    /\ \A c \in Conns : sockets[c] = "closed" => inbox'[c] = inbox[c]
    /\ last'.op = "send_message" =>
          \A c \in rooms[last'.roomId] \ {last'.socket} :
              /\ sockets[c] = "connected"
              /\ Len(inbox'[c]) = Len(inbox[c]) + 1

C9_DisconnectLeavesAll == []C9_ClosedHasNoRoom /\ [][C9_DisconnectStep]_vars

\* C9 witness: right after a member of a room disconnected, a send_message
\* to that room has been delivered to a member of it, and no closed socket
\* got a copy.
C9_Witness ==
    /\ last.op = "send_message"
    /\ last.afterLeave
    /\ \E c \in Conns : c # last.socket /\ Copies(c, last.n) = 1
    /\ \E c \in Conns : sockets[c] = "closed"
    /\ \A c \in Conns : sockets[c] = "closed" => Copies(c, last.n) = 0

---------------------------------------------------------------------------
(* Properties of the OTP endpoints, continued; checked under SpecOtp unless *)
(* said otherwise                                                          *)

\* the limiter has room for one more request of src
HasQuota(src) == ~Has(hits, src) \/ hits[src].count < 3

\* C11: a send-otp request whose email is missing, empty or malformed is
\* answered without success, with 400 whenever the limiter lets it through,
\* calls sendOTP zero times, suspends no handler and leaves the store as it
\* is.
C11_InvalidStep ==
    \A src \in Sources, e \in BadEmails :
        (ArrivalStep(src) /\ last'.email = e) =>
            /\ last'.op = "send-otp" /\ ~last'.success
            /\ last'.status \in {400, 429}
            /\ HasQuota(src) => last'.status = 400
            /\ last'.notified = <<>>
            /\ otpStore' = otpStore
            /\ inflight' = inflight

C12_AbsentStep ==
    /\ \A e \in ValidEmails, c \in Candidates :
          (VerifyStep(e, c) /\ ~Has(otpStore, e)) =>
              /\ ~last'.success /\ last'.status = 400
              /\ ~Falsy(c) => last'.message \in AbsentMessages
              /\ otpStore' = otpStore
    /\ last'.op = "verify-otp" => DOMAIN otpStore' \subseteq DOMAIN otpStore

C12_AbsentIsNotFound == [][C12_AbsentStep]_vars

\* C12 witness: a verification for an email without a record has just been
\* refused while another email has a record.
C12_Witness ==
    /\ last.op = "verify-otp" /\ ~last.success
    /\ last.email \in ValidEmails
    /\ ~Falsy(last.otp)
    /\ ~Has(otpStore, last.email)
    /\ otpStore # EmptyMap

\* C13: a verification that finds the record of its email past expiresAt
\* deletes that record, whatever the candidate: after the step the store has
\* no record of the email.
C13_ExpiredStep ==
    \A e \in ValidEmails, c \in Candidates :
        (VerifyStep(e, c) /\ ~Falsy(c) /\ Has(otpStore, e)
            /\ now > otpStore[e].expiresAt)
           => ~Has(otpStore', e)

C13_ExpiredIsDeleted == [][C13_ExpiredStep]_vars

---------------------------------------------------------------------------
(* Properties of the rate limiter, continued; checked under SpecLimiter *)

\* C14: a send-otp request that the limiter denies is answered 429 without
\* success, calls sendOTP zero times, suspends no handler and leaves the
\* store as it is, so a pending record of the requested email stays as it
\* was.
C14_DeniedStep ==
    \A src \in Sources :
        (ArrivalStep(src) /\ InWindow(src) /\ hits[src].count >= 3) =>
            /\ last'.op = "send-otp" /\ last'.status = 429 /\ ~last'.success
            /\ last'.notified = <<>>
            /\ otpStore' = otpStore
            /\ inflight' = inflight

C14_DeniedChangesNothing == [][C14_DeniedStep]_vars

\* C14 witness: a request for an email with a pending, unexpired record has
\* just been denied, and the record is still there.
C14_Witness ==
    /\ last.op = "send-otp" /\ last.status = 429
    /\ last.email \in ValidEmails
    /\ last.had
    /\ Live(last.email)

---------------------------------------------------------------------------
(* Properties of the relay, continued; checked under SpecRelay *)

\* C15: no socket ever holds two copies of one send_message event.
C15_AtMostOneCopy ==
    \A c \in Conns, n \in 1..sent : Copies(c, n) <= 1

\* C15: join_room by a socket that is in the room already leaves the rooms,
\* the sockets and every inbox as they are; and a send_message appends one
\* delivery to each other member of the room.
C15_JoinStep ==
    /\ \A c \in Conns, r \in RoomIds :
          (last'.op = "join_room" /\ last'.socket = c /\ last'.roomId = r
              /\ c \in rooms[r])
             => rooms' = rooms /\ sockets' = sockets /\ inbox' = inbox
    /\ last'.op = "send_message" =>
          \A c \in rooms[last'.roomId] \ {last'.socket} :
              inbox'[c] = Append(inbox[c], inbox'[c][Len(inbox'[c])])

C15_JoinIdempotent == []C15_AtMostOneCopy /\ [][C15_JoinStep]_vars

\* C15 witness: a socket joined a room it was in already, then another
\* member sent to the room, and every other member of the room, the socket
\* that joined twice among them, holds one copy of that message.
C15_Witness ==
    /\ last.op = "send_message"
    /\ last.rejoined
    /\ last.socket \in rooms[last.roomId]
    /\ rooms[last.roomId] \ {last.socket} # {}
    /\ \A c \in rooms[last.roomId] \ {last.socket} : Copies(c, last.n) = 1

\* C16: a send_message to a room that has no member other than the sender
\* leaves every inbox, the rooms and the sockets as they are; nothing is
\* kept of it: an inbox changes only in a send_message step, by the one
\* delivery of that event, so a join_room delivers nothing.
C16_DropStep ==
    /\ (last'.op = "send_message" /\ rooms[last'.roomId] \ {last'.socket} = {})
          => inbox' = inbox /\ rooms' = rooms /\ sockets' = sockets
    /\ last'.op = "join_room" => inbox' = inbox
    /\ \A c \in Conns :
          inbox'[c] # inbox[c] =>
              /\ last'.op = "send_message"
              /\ c \in rooms[last'.roomId]
              /\ Len(inbox'[c]) = Len(inbox[c]) + 1
              /\ inbox'[c] = Append(inbox[c], inbox'[c][Len(inbox'[c])])
              /\ inbox'[c][Len(inbox'[c])].n = last'.n

C16_EmptyRoomDrops == [][C16_DropStep]_vars

\* C16 witness: a socket has just joined a room, right after a send_message
\* to that room found nobody to deliver to; nobody holds a copy of it.
C16_Witness ==
    /\ last.op = "join_room"
    /\ last.late
    /\ last.socket \in rooms[last.roomId]
    /\ sent >= 1
    /\ \A c \in Conns : Copies(c, sent) = 0

---------------------------------------------------------------------------
(* Properties of the OTP endpoints, continued; checked under SpecOtp *)

\* C17: a send-otp handler calls sendOTP once, with the email of the request
\* and the code it generated, and a handler that answers 200 has stored that
\* code for that email; no step calls it more than once, and the step that
\* resumes a handler calls it no more.
C17_NotifyStep ==
    /\ \A h \in Slots :
          /\ (inflight[h] = Idle /\ inflight'[h] # Idle) =>
                last'.notified = <<[email |-> inflight'[h].email,
                                    otp   |-> inflight'[h].otp]>>
          /\ (inflight[h] # Idle /\ inflight'[h] = Idle) =>
                /\ last'.notified = <<>>
                /\ last'.success =>
                      otpStore'[inflight[h].email].otp = Digits(inflight[h].otp)
    /\ (last'.op = "send-otp" /\ last'.success /\ inflight' = inflight) =>
          /\ Len(last'.notified) = 1
          /\ last'.notified[1].email = last'.email
          /\ Digits(last'.notified[1].otp) = otpStore'[last'.email].otp
    /\ last'.op \in {"send-otp", "await sendOTP"} => Len(last'.notified) <= 1
    /\ (last'.op = "send-otp" /\ ~last'.success /\ inflight' = inflight) =>
          last'.notified = <<>>

C17_NotifiedOnce == [][C17_NotifyStep]_vars

\* C17 witness: a send-otp has just answered 200 after one call of sendOTP,
\* made with the code now stored.
C17_Witness ==
    /\ last.op = "send-otp" /\ last.success
    /\ Len(last.notified) = 1
    /\ last.notified[1].email = last.email
    /\ Digits(last.notified[1].otp) = otpStore[last.email].otp

\* C18: no record, stored or about to be stored, expires more than 10
\* minutes after the present.
C18_ExpiryBounded ==
    /\ \A e \in DOMAIN otpStore : otpStore[e].expiresAt <= now + 1
    /\ \A h \in Slots : inflight[h] # Idle => inflight[h].expiresAt <= now + 1

\* C18: a send-otp handler fixes expiresAt, 10 minutes after the time of the
\* step, in the step that generates the code, and the record it stores, at
\* once or after the await, carries that expiresAt; a verification succeeds
\* only at a time not after the expiresAt of the record.
C18_ExpiryStep ==
    /\ \A h \in Slots :
          /\ (inflight[h] = Idle /\ inflight'[h] # Idle) =>
                inflight'[h].expiresAt = now + 1
          /\ (inflight[h] # Idle /\ inflight'[h] = Idle /\ last'.success) =>
                otpStore'[inflight[h].email].expiresAt = inflight[h].expiresAt
    /\ (last'.op = "send-otp" /\ last'.success /\ inflight' = inflight) =>
          otpStore'[last'.email].expiresAt = now + 1
    /\ (last'.op = "verify-otp" /\ last'.success) =>
          /\ Has(otpStore, last'.email)
          /\ now <= otpStore[last'.email].expiresAt

C18_ExpiresTenMinutesAfterIssue == []C18_ExpiryBounded /\ [][C18_ExpiryStep]_vars

\* C18 witness: a handler has just stored its record after an await that
\* took 10 minutes or more: the record expires at the present or earlier.
C18_Witness ==
    /\ last.op = "send-otp" /\ last.success
    /\ otpStore[last.email].expiresAt <= now

\* C19: a candidate given as a number is treated as the same digits given
\* as a string: against a live record whose code has those digits it is
\* accepted, as the string is, and the record is deleted.
C19_NumberStep ==
    \A e \in ValidEmails, c \in Codes :
        (VerifyStep(e, Num(c)) /\ Live(e) /\ otpStore[e].otp = Digits(c))
           => last'.success /\ ~Has(otpStore', e)

C19_NumberAsString == [][C19_NumberStep]_vars

---------------------------------------------------------------------------
(* Properties of the generated code, checked under SpecCodes *)

\* the characters are six decimal digits, the first of them not 0
SixDigits(d) ==
    /\ Len(d) = 6
    /\ d[1] \in 1..9
    /\ \A i \in 2..6 : d[i] \in 0..9

\* C20: every stored code, and every code a suspended handler is about to
\* store, is the decimal string of an integer from 100000 to 999999.
C20_StoredCodeHasSixDigits ==
    /\ \A e \in DOMAIN otpStore : SixDigits(otpStore[e].otp)
    /\ \A h \in Slots :
          inflight[h] # Idle =>
              /\ inflight[h].otp \in 100000..999999
              /\ SixDigits(Digits(inflight[h].otp))

\* C20 witness: the store holds a code drawn near the top of the range.
C20_Witness ==
    \E e \in DOMAIN otpStore :
        otpStore[e].otp[1] = 9 /\ otpStore[e].otp[2] = 9

---------------------------------------------------------------------------
(* Properties of the relay, continued; checked under SpecRelay *)

\* C21: right after a send_message every delivery of it carries the message
\* and the senderId of the event and a timestamp made by the server.
C21_PayloadComplete ==
    last.op = "send_message" =>
        \A c \in Conns : \A i \in 1..Len(inbox[c]) :
            inbox[c][i].n = last.n =>
                /\ DOMAIN inbox[c][i].payload = {"message", "senderId", "timestamp"}
                /\ inbox[c][i].payload.message = last.message
                /\ inbox[c][i].payload.senderId = last.senderId
                /\ inbox[c][i].payload.timestamp = ToISOString(now)

---------------------------------------------------------------------------
(* Properties of overlapping requests, checked under SpecOverlap *)

\* C22: a send-otp handler that resumes and stores never replaces the record
\* of an issuance that was requested later than its own: the record of an
\* email is only ever replaced by one that expires no earlier.
C22_OverlapStep ==
    \A e \in ValidEmails :
        (IssuedStep(e) /\ Has(otpStore, e))
           => otpStore'[e].expiresAt >= otpStore[e].expiresAt

C22_LaterRequestWins == [][C22_OverlapStep]_vars

\* C23: every record of the store is a whole { otp, expiresAt } with a code
\* of six digits.
C23_RecordsWhole ==
    \A e \in DOMAIN otpStore :
        /\ DOMAIN otpStore[e] = {"otp", "expiresAt"}
        /\ SixDigits(otpStore[e].otp)

\* C23: a record enters the store or changes only in the step in which one
\* send-otp handler stores, and it is then the code and the expiresAt of
\* that one handler; a verification succeeds only with the code of the
\* record it finds, unexpired, and deletes it in the same step, so that no
\* second verification finds it.
C23_WholeStep ==
    \A e \in ValidEmails :
        /\ (Has(otpStore', e) /\ (~Has(otpStore, e) \/ otpStore'[e] # otpStore[e]))
              => IssuedStep(e)
        /\ IssuedStep(e) =>
              IF UsesMailer(variant)
              THEN \E h \in Slots :
                      /\ inflight[h] # Idle /\ inflight'[h] = Idle
                      /\ inflight[h].email = e
                      /\ otpStore'[e] = [otp |-> Digits(inflight[h].otp),
                                         expiresAt |-> inflight[h].expiresAt]
              ELSE otpStore'[e] = [otp |-> Digits(last'.notified[1].otp),
                                   expiresAt |-> now + 1]
        /\ (last'.op = "verify-otp" /\ last'.email = e /\ last'.success) =>
              /\ Live(e)
              /\ String(last'.otp) = otpStore[e].otp
              /\ ~Has(otpStore', e)

C23_Linearizable == []C23_RecordsWhole /\ [][C23_WholeStep]_vars

\* C23 witness: a verification has just succeeded for an email while a
\* send-otp handler for that email is suspended at its sendOTP call.
C23_Witness ==
    /\ last.op = "verify-otp" /\ last.success
    /\ ~Has(otpStore, last.email)
    /\ \E h \in Slots : inflight[h] # Idle /\ inflight[h].email = last.email

\* C24: the limiter counts a request in the step in which the request
\* arrives, before any await: an arrival that finds two requests counted
\* takes the last place of the window, and an arrival that finds three is
\* denied, whether or not other requests of the source are suspended; no
\* other step changes the count.
C24_AtomicStep ==
    \A src \in Sources :
        /\ (ArrivalStep(src) /\ InWindow(src) /\ hits[src].count = 2)
              => ~RejectedStep /\ hits'[src].count = 3
        /\ (ArrivalStep(src) /\ InWindow(src) /\ hits[src].count >= 3)
              => RejectedStep /\ hits' = hits
        /\ ~ArrivalStep(src) => (Has(hits', src) <=> Has(hits, src))
        /\ (~ArrivalStep(src) /\ Has(hits, src)) => hits'[src] = hits[src]

C24_AtMostThree == \A src \in DOMAIN hits : hits[src].count <= 3

C24_LimiterAtomic == []C24_AtMostThree /\ [][C24_AtomicStep]_vars

\* C24 witness: a request has just been denied while the request that took
\* the last place of the window is still suspended at its sendOTP call.
C24_Witness ==
    /\ last.op = "send-otp" /\ last.status = 429
    /\ hits[last.src].count = 3
    /\ \E h \in Slots : inflight[h] # Idle /\ inflight[h].src = last.src

---------------------------------------------------------------------------
(* Properties of a pending sendOTP call, checked under SpecPending *)

\* C25: while a send-otp handler is suspended at its sendOTP call, a
\* verify-otp for any email and candidate, a send-otp on a free handler
\* instance, the sweep where there is one, and the relay's handlers can each
\* take their step, and the suspended handler can complete either way.
C25_NothingBlocked ==
    \A h \in Slots :
        inflight[h] # Idle =>
            /\ \A e \in ValidEmails, c \in Candidates : ENABLED VerifyOtp(e, c)
            /\ \A x \in Slots \ {h} :
                  inflight[x] = Idle =>
                      \A e \in ValidEmails : ENABLED SendOtp(x, "ip1", e, 0)
            /\ HasSweep(variant) => ENABLED Sweep
            /\ \A c \in Conns :
                  /\ sockets[c] = "new" => ENABLED Connection(c)
                  /\ sockets[c] = "connected" =>
                        /\ ENABLED Disconnect(c)
                        /\ \A r \in RoomIds :
                              /\ ENABLED JoinRoom(c, r)
                              /\ sent < MaxSends =>
                                    ENABLED SendMessage(c, r, "hi", "u1")
            /\ ENABLED SendMailResolved(h)
            /\ ENABLED SendMailRejected(h)

\* C25: a step leaves a suspended handler as it is, unless it is the step
\* that resumes that handler and answers its request.
C25_PendingStep ==
    \A h \in Slots :
        inflight[h] # Idle =>
            \/ inflight'[h] = inflight[h]
            \/ /\ inflight'[h] = Idle
               /\ last'.op = "send-otp"
               /\ last'.email = inflight[h].email
               /\ last'.status \in {200, 500}

C25_NoLockWhilePending == []C25_NothingBlocked /\ [][C25_PendingStep]_vars

\* C25 witness: the relay has just delivered a send_message step while two
\* send-otp handlers are suspended and the store holds a record.
C25_Witness ==
    /\ last.op = "send_message"
    /\ \A h \in Slots : inflight[h] # Idle
    /\ otpStore # EmptyMap

---------------------------------------------------------------------------
(* Properties of the relay, continued; checked under SpecRelay *)

\* the sockets whose inbox the step changes
Recipients == {c \in Conns : inbox'[c] # inbox[c]}

\* C26: a send_message is one step: the sockets it delivers to are the
\* members of the room at that step other than the sender, each gets one
\* delivery, the step changes neither the rooms nor the sockets, and a
\* socket that was closed before the step is not among them.
C26_SnapshotStep ==
    last'.op = "send_message" =>
        /\ Recipients = rooms[last'.roomId] \ {last'.socket}
        /\ rooms' = rooms /\ sockets' = sockets
        /\ \A c \in Recipients :
              /\ sockets[c] = "connected"
              /\ Len(inbox'[c]) = Len(inbox[c]) + 1
        /\ \A c \in Conns : sockets[c] = "closed" => c \notin Recipients

C26_AtomicSnapshot == [][C26_SnapshotStep]_vars

\* C26 witness: a send_message has just been delivered to a member of its
\* room after one socket disconnected and, since then, another step was
\* taken; the closed socket got no copy.
C26_Witness ==
    /\ last.op = "send_message"
    /\ ~last.afterLeave
    /\ \E c \in Conns : sockets[c] = "closed" /\ Copies(c, last.n) = 0
    /\ \E c \in Conns : sockets[c] = "connected" /\ Copies(c, last.n) = 1

---------------------------------------------------------------------------
(* Properties of expiry, checked under SpecOtpFair and SpecOtp *)

\* C27: a record that is in the store past its expiresAt is eventually
\* absent from the store.
C27_ExpiredEventuallyGone ==
    \A e \in ValidEmails :
        (Has(otpStore, e) /\ now > otpStore[e].expiresAt) ~> ~Has(otpStore, e)

---------------------------------------------------------------------------
(* Properties of the message relay, continued; checked under SpecRelay *)

\* C28: a send_message of a socket that is not in the room delivers one copy
\* to every socket of the room and to nobody else, and leaves every room,
\* the sender's memberships included, as it was.
C28_OutsiderStep ==
    (last'.op = "send_message" /\ last'.socket \notin rooms[last'.roomId]) =>
        /\ rooms' = rooms
        /\ \A c \in Conns :
              IF c \in rooms[last'.roomId]
              THEN /\ Len(inbox'[c]) = Len(inbox[c]) + 1
                   /\ inbox'[c] = Append(inbox[c], inbox'[c][Len(inbox'[c])])
                   /\ inbox'[c][Len(inbox'[c])].n = last'.n
                   /\ inbox'[c][Len(inbox'[c])].payload.message = last'.message
                   /\ \A i \in 1..Len(inbox[c]) : inbox[c][i].n # last'.n
              ELSE inbox'[c] = inbox[c]

C28_OutsiderRelayed == [][C28_OutsiderStep]_vars

\* C28 witness: a socket outside a room of two has just sent to it; both
\* members hold one copy and the sender is still outside.
C28_Witness ==
    /\ last.op = "send_message"
    /\ last.socket \notin rooms[last.roomId]
    /\ Cardinality(rooms[last.roomId]) >= 2
    /\ \A c \in rooms[last.roomId] : Copies(c, last.n) = 1
    /\ Copies(last.socket, last.n) = 0

---------------------------------------------------------------------------
(* Properties of the limiter, continued; checked under SpecLimiter *)

\* C29: a send-otp request that is answered 400 for its email leaves the
\* limiter's count of its source as it was.
C29_InvalidStep ==
    \A src \in Sources :
        (ArrivalStep(src) /\ last'.op = "send-otp" /\ last'.status = 400)
            => hits' = hits

C29_InvalidNotCounted == [][C29_InvalidStep]_vars

---------------------------------------------------------------------------
(* Properties of expiry, continued; checked under SpecOtp *)

\* C30: a run of the sweep deletes the records with now > expiresAt and
\* keeps the others as they are; a verification with the stored code
\* succeeds when now <= expiresAt and fails when now > expiresAt; so the
\* sweep deletes no record that a verification would still accept.
C30_BoundaryStep ==
    /\ last'.op = "sweep" =>
          \A e \in Emails :
              /\ Has(otpStore', e) <=>
                    (Has(otpStore, e) /\ ~(now > otpStore[e].expiresAt))
              /\ Has(otpStore', e) => otpStore'[e] = otpStore[e]
    /\ \A e \in ValidEmails, d \in CodeStrings :
          (VerifyStep(e, Str(d)) /\ Has(otpStore, e) /\ otpStore[e].otp = d) =>
              (last'.success <=> ~(now > otpStore[e].expiresAt))
    /\ last'.op = "sweep" =>
          \A e \in ValidEmails : Live(e) => Has(otpStore', e)

C30_SameBoundary == [][C30_BoundaryStep]_vars

\* C30 witness: the sweep has just run at the instant a record expires, and
\* the record is still in the store.
C30_Witness ==
    /\ last.op = "sweep"
    /\ \E e \in ValidEmails : Has(otpStore, e) /\ now = otpStore[e].expiresAt

---------------------------------------------------------------------------
(* Frame properties, checked under SpecPending *)

\* C31: a run of the sweep leaves every record with expiresAt >= now as it
\* is, code and expiresAt, and changes nothing but the store: the limiter's
\* windows, the suspended handlers, the rooms, the sockets and what they
\* received stay as they were.
C31_SweepStep ==
    last'.op = "sweep" =>
        /\ \A e \in Emails :
              (Has(otpStore, e) /\ otpStore[e].expiresAt >= now) =>
                  Has(otpStore', e) /\ otpStore'[e] = otpStore[e]
        /\ \A e \in Emails : Has(otpStore', e) => Has(otpStore, e)
        /\ hits' = hits
        /\ inflight' = inflight
        /\ rooms' = rooms /\ sockets' = sockets /\ inbox' = inbox
        /\ now' = now

C31_SweepFrame == [][C31_SweepStep]_vars

\* C31 witness: the sweep has just run with a record that is not past its
\* expiry, a limiter window and a room with a member; all three are there.
C31_Witness ==
    /\ last.op = "sweep"
    /\ \E e \in ValidEmails : Has(otpStore, e) /\ otpStore[e].expiresAt >= now
    /\ \E src \in Sources : Has(hits, src)
    /\ \E r \in RoomIds : rooms[r] # {}

---------------------------------------------------------------------------
(* Isolation properties, checked under SpecMixed *)

OtpOps == {"send-otp", "await sendOTP", "verify-otp"}

RelayOps == {"connection", "join_room", "send_message", "disconnect"}

\* C32: a step of send-otp or verify-otp for one email leaves the record of
\* every other email as it is, there or not, whatever it answers; such a
\* step leaves the rooms, the sockets and what they received as they are;
\* and a step of the relay leaves the store as it is.
C32_IsolationStep ==
    /\ \A e \in ValidEmails :
          (last'.op \in OtpOps /\ last'.email # e) =>
              /\ Has(otpStore', e) <=> Has(otpStore, e)
              /\ Has(otpStore, e) => otpStore'[e] = otpStore[e]
    /\ last'.op \in OtpOps =>
          rooms' = rooms /\ sockets' = sockets /\ inbox' = inbox
    /\ last'.op \in RelayOps => otpStore' = otpStore /\ inflight' = inflight

C32_IdentitiesIsolated == [][C32_IsolationStep]_vars

\* C32 witness: a verification has just succeeded for one email, and so
\* deleted its record, while the other email has a record and a room has a
\* member.
C32_Witness ==
    /\ last.op = "verify-otp" /\ last.success
    /\ \E e \in ValidEmails : e # last.email /\ Has(otpStore, e)
    /\ \E r \in RoomIds : rooms[r] # {}

---------------------------------------------------------------------------
(* Properties of the rate limiter, continued; checked under SpecLimiter *)

\* C33: whether a request of a source is denied is settled by that source's
\* own window and the time: it is denied exactly when its window has not
\* elapsed and holds 3 requests.  The request of one source leaves the
\* window of every other source as it is, and a step that is no arrival
\* leaves every window as it is, whatever email the requests name.
C33_SourceStep ==
    /\ \A a \in Sources :
          /\ ArrivalStep(a) =>
                (RejectedStep <=> (InWindow(a) /\ hits[a].count >= 3))
          /\ \A b \in Sources \ {a} :
                ArrivalStep(b) =>
                    /\ Has(hits', a) <=> Has(hits, a)
                    /\ Has(hits, a) => hits'[a] = hits[a]
    /\ (\A a \in Sources : ~ArrivalStep(a)) => hits' = hits

C33_SourcesIsolated == [][C33_SourceStep]_vars

\* C33 witness: a request of one source for an email has just been let
\* through while another source, whose window holds 3 requests and has not
\* elapsed, is shut out.
C33_Witness ==
    /\ last.op \in {"send-otp", "await sendOTP"}
    /\ last.email = Email1
    /\ last.op = "send-otp" => last.status = 200
    /\ \E b \in Sources \ {last.src} : InWindow(b) /\ hits[b].count = 3
    /\ Has(hits, last.src) /\ hits[last.src].count = 1

---------------------------------------------------------------------------
(* Properties of the role routes, checked under SpecRoles *)

ApproveOps == {"approve-role", "await approve-role"}

\* the step is taken by the approve-role handler in flight
ApproveStep == approving # Idle /\ last'.op \in ApproveOps

\* C34: a step of approve-role changes a collection only when the requester
\* has a document in admins, the role is 'driver' or 'admin', and the role
\* request of that user is there with that requestedRole; a step that
\* answers 403, 400 or 404, the 404 for a missing user document included,
\* and the arrival of the request change no collection.
C34_ApproveStep ==
    /\ (ApproveStep /\ firestore' # firestore) =>
          /\ Has(firestore.admins, approving.uid)
          /\ IsRole(approving.role)
          /\ Has(firestore.roleRequests, approving.userId)
          /\ firestore.roleRequests[approving.userId].requestedRole = approving.role
    /\ (ApproveStep /\ last'.op = "approve-role" /\ last'.status \in {400, 403, 404})
          => firestore' = firestore
    /\ (approving = Idle /\ last'.op \in ApproveOps) => firestore' = firestore

C34_ApproveOnlyWhenChecked == [][C34_ApproveStep]_vars

\* C34, the part the handler keeps: it writes only after it has read a
\* document of the requester in admins, a valid role and a role request with
\* that role, that is, only from the calls that follow its three checks.
C34_WritesFollowChecks ==
    [][(ApproveStep /\ firestore' # firestore) =>
          /\ approving.at \in {"roles.set", "users.delete", "roleRequests.update"}
          /\ Has(firestore.admins, approving.uid)
          /\ IsRole(approving.role)]_vars

---------------------------------------------------------------------------
(* Properties of the push endpoint, checked under SpecPush *)

\* C35: a send-notifications request that is answered with counts has
\* attempted one push for every driver token; successCount + failureCount
\* is the number of tokens and failureCount is the number of pushes that
\* failed.
C35_CountsMatchPushes ==
    (last.op = "send-notifications" /\ last.status = 200) =>
        /\ last.pushed = last.tokens
        /\ last.fcmResponse.successCount + last.fcmResponse.failureCount
              = Len(last.tokens)
        /\ last.fcmResponse.failureCount = last.failed

\* C35, the part both files keep: one push per token, and the two counts
\* add up to the number of tokens.
C35_CountsAddUp ==
    (last.op = "send-notifications" /\ last.status = 200) =>
        /\ last.pushed = last.tokens
        /\ last.fcmResponse.successCount + last.fcmResponse.failureCount
              = Len(last.tokens)

===========================================================================
